---- MODULE Spec2Model ----
(***************************************************************************)
(* A model of futil's sorting library (src/sort.hpp): insertion_sort,      *)
(* knuth_seq, h_sort, shell_sort and merge_sort.                           *)
(*                                                                         *)
(* A range [first, last) is a function from the offsets 0 .. n-1 to        *)
(* elements.  An element is a record of a key, which is all the comparator *)
(* looks at, and a tag, which is the element's offset in the input, so     *)
(* that elements equivalent under the comparator stay distinguishable.     *)
(* Iterators are offsets from the start of the range.  An iterator may     *)
(* point at an element or at last; forming one beyond last is undefined    *)
(* behaviour, with two outcomes: the offset is formed as a plain number    *)
(* and the code goes on (raw pointers, unchecked iterators), or the        *)
(* program is aborted there (checked iterators).                           *)
(***************************************************************************)
EXTENDS Integers, Sequences, FiniteSets

VARIABLES
    alg,        \* the entry point called: "insertion", "shell", "merge", "knuth"
    ord,        \* the comparator passed as comp: "lt" or "gt" on keys
    n,          \* last - first of the entry point (knuth_seq: its argument)
    a,          \* the range [first, last)
    a0,         \* the range's content at the call
    aux,        \* merge_sort's auxiliary buffer, of capacity n
    pc,         \* the position in the code; "aborted": stopped by a checked
                \* iterator
    first,      \* insertion_sort's first, as an offset
    last,       \* insertion_sort's last, as an offset
    i,          \* insertion_sort's / h_sort's i
    j,          \* insertion_sort's / h_sort's j
    h,          \* shell_sort's h
    lo,         \* merge_sort's lo
    mid,        \* merge_sort's mid
    hi,         \* merge_sort's hi
    sz,         \* merge_sort's sz
    kres,       \* knuth_seq's return value
    swaps,      \* observer: number of std::iter_swap calls so far
    ncmp,       \* observer: number of comp calls so far (h_sort)
    cmpLog,     \* observer: results of the comp calls at h_sort's current i
    gaps,       \* observer: the gaps shell_sort has passed to h_sort, in order
    rangeAcc,   \* observer: offsets of the range read or written so far
    auxAcc,     \* observer: offsets of aux read or written so far
    out,        \* std::merge's output iterator d_first, as an offset into aux
    p,          \* std::merge's first1
    q           \* std::merge's first2

vars == <<alg, ord, n, a, a0, aux, pc, first, last, i, j, h, lo, mid, hi, sz,
          kres, swaps, ncmp, cmpLog, gaps, rangeAcc, auxAcc, out, p, q>>

(***************************************************************************)
(* Bounds of the model.                                                    *)
(***************************************************************************)
InsMaxLen == 5      \* insertion_sort: every range of length 0 .. InsMaxLen
InsMaxKey == 2      \* insertion_sort: keys 0 .. InsMaxKey
ShMaxLen == 6       \* shell_sort: every range of length 0 .. ShMaxLen
ShMaxKey == 1       \* shell_sort: keys 0 .. ShMaxKey
ShMaxRev == 16      \* shell_sort: the descending ranges up to this length
MrgMaxLen == 50     \* merge_sort: the longest range
MrgMaxPat == 2      \* merge_sort: key patterns 0 .. MrgMaxPat
MrgMaxJunk == 1     \* merge_sort: aux starts filled with a key 0 .. MrgMaxJunk
KnMaxN == 130       \* knuth_seq: arguments 0 .. KnMaxN

(***************************************************************************)
(* merge_sort's Diff cutoff = 16.                                          *)
(***************************************************************************)
cutoff == 16

(***************************************************************************)
(* Elements, the comparator, memory.                                       *)
(***************************************************************************)
Elem(k, t) == [key |-> k, tag |-> t]

\* What a read outside an array yields in the model: no element of any input.
Stray == Elem(0, -1000)

Orders == {"lt", "gt"}

\* comp(x, y): a strict weak ordering, chosen at the call.
comp(x, y) == IF ord = "lt" THEN x.key < y.key ELSE x.key > y.key

Equiv(x, y) == ~comp(x, y) /\ ~comp(y, x)

Rd(arr, x) == IF x \in DOMAIN arr THEN arr[x] ELSE Stray

Wr(arr, x, v) == IF x \in DOMAIN arr THEN [arr EXCEPT ![x] = v] ELSE arr

\* std::iter_swap(x, y)
IterSwap(arr, x, y) == Wr(Wr(arr, x, Rd(arr, y)), y, Rd(arr, x))

\* The outcomes of forming the iterator first + x on a range of e elements:
\* the iterator at offset x and, when it lies beyond last, also the abort.
Advance(x, e) ==
    {[trap |-> FALSE, at |-> x]}
        \cup (IF x > e THEN {[trap |-> TRUE, at |-> x]} ELSE {})

\* Every range of length 0 .. maxLen with keys 0 .. maxKey, tagged by offset.
AllRanges(maxLen, maxKey) ==
    UNION {{[x \in 0..(len - 1) |-> Elem(ks[x], x)] :
                ks \in [0..(len - 1) -> 0..maxKey]} : len \in 0..maxLen}

\* The descending range of length len: keys len, len-1, ..., 1.
Descending(len) == [x \in 0..(len - 1) |-> Elem(len - x, x)]

Size(arr) == Cardinality(DOMAIN arr)

(***************************************************************************)
(* What the claims speak of.                                               *)
(***************************************************************************)
IsSorted(arr) ==
    \A x \in DOMAIN arr : (x + 1) \in DOMAIN arr => ~comp(arr[x + 1], arr[x])

\* arr is a rearrangement of orig (orig's elements are pairwise distinct).
IsPermutation(arr, orig) ==
    /\ DOMAIN arr = DOMAIN orig
    /\ {arr[x] : x \in DOMAIN arr} = {orig[x] : x \in DOMAIN orig}

\* Equivalent elements stand in the order of their tags, i.e. of the input.
KeepsOrder(arr) ==
    \A x, y \in DOMAIN arr :
        (x < y /\ Equiv(arr[x], arr[y])) => arr[x].tag < arr[y].tag

IsStableSortOf(arr, orig) ==
    IsSorted(arr) /\ IsPermutation(arr, orig) /\ KeepsOrder(arr)

\* A term of the sequence 1, 4, 13, 40, ...: k0 = 1, k_{i+1} = 3*k_i + 1.
RECURSIVE IsKnuthTerm(_)
IsKnuthTerm(k) ==
    \/ k = 1
    \/ k > 1 /\ k % 3 = 1 /\ IsKnuthTerm((k - 1) \div 3)

Inversions(arr) ==
    Cardinality({pq \in (DOMAIN arr) \X (DOMAIN arr) :
                    pq[1] < pq[2] /\ comp(arr[pq[2]], arr[pq[1]])})

(***************************************************************************)
(* The state right after a call, before its first statement.               *)
(***************************************************************************)
Call(entry, o, nn, range, buffer) ==
    /\ alg = entry
    /\ ord = o
    /\ n = nn
    /\ a = range
    /\ a0 = range
    /\ aux = buffer
    /\ pc = entry
    /\ first = 0
    /\ last = Size(range)
    /\ i = 0
    /\ j = 0
    /\ h = 0
    /\ lo = 0
    /\ mid = 0
    /\ hi = 0
    /\ sz = 0
    /\ kres = 0
    /\ swaps = 0
    /\ ncmp = 0
    /\ cmpLog = <<>>
    /\ gaps = <<>>
    /\ rangeAcc = {}
    /\ auxAcc = {}
    /\ out = 0
    /\ p = 0
    /\ q = 0

(***************************************************************************)
(* insertion_sort(first, last, comp)                                       *)
(***************************************************************************)
\* The inner loop's break: if (!comp(*j, *k)) { break; }
InsBreakEquiv(x, y) == ~(comp(x, y) \/ Equiv(x, y))
InsBreaks(x, y) == ~comp(x, y)

\* Entry: i = first.
InsEnter ==
    /\ pc = "insertion"
    /\ i' = first
    /\ pc' = "ins_i"
    /\ UNCHANGED <<alg, ord, n, a, a0, aux, first, last, j, h, lo, mid, hi, sz,
                   kres, swaps, ncmp, cmpLog, gaps, rangeAcc, auxAcc, out, p, q>>

\* for (...; i != last; ...) holds: j = i.
InsScan ==
    /\ pc = "ins_i"
    /\ i # last
    /\ j' = i
    /\ pc' = "ins_j"
    /\ UNCHANGED <<alg, ord, n, a, a0, aux, first, last, i, h, lo, mid, hi, sz,
                   kres, swaps, ncmp, cmpLog, gaps, rangeAcc, auxAcc, out, p, q>>

\* i == last: the call returns, to merge_sort's first loop (lo += cutoff) when
\* merge_sort made it.
InsReturn ==
    /\ pc = "ins_i"
    /\ i = last
    /\ IF alg = "merge"
         THEN /\ lo' = lo + cutoff
              /\ pc' = "cut"
         ELSE /\ lo' = lo
              /\ pc' = "done"
    /\ UNCHANGED <<alg, ord, n, a, a0, aux, first, last, i, j, h, mid, hi, sz,
                   kres, swaps, ncmp, cmpLog, gaps, rangeAcc, auxAcc, out, p, q>>

\* j == first: the inner loop ends, ++i.
InsFront ==
    /\ pc = "ins_j"
    /\ j = first
    /\ i' = i + 1
    /\ pc' = "ins_i"
    /\ UNCHANGED <<alg, ord, n, a, a0, aux, first, last, j, h, lo, mid, hi, sz,
                   kres, swaps, ncmp, cmpLog, gaps, rangeAcc, auxAcc, out, p, q>>

\* k = prev(j); !comp(*j, *k): break, ++i.
InsBreak ==
    /\ pc = "ins_j"
    /\ j # first
    /\ InsBreaks(Rd(a, j), Rd(a, j - 1))
    /\ i' = i + 1
    /\ pc' = "ins_i"
    /\ rangeAcc' = rangeAcc \cup {j, j - 1}
    /\ UNCHANGED <<alg, ord, n, a, a0, aux, first, last, j, h, lo, mid, hi, sz,
                   kres, swaps, ncmp, cmpLog, gaps, auxAcc, out, p, q>>

\* k = prev(j); comp(*j, *k): iter_swap(j, k), --j.
InsSwap ==
    /\ pc = "ins_j"
    /\ j # first
    /\ ~InsBreaks(Rd(a, j), Rd(a, j - 1))
    /\ a' = IterSwap(a, j, j - 1)
    /\ j' = j - 1
    /\ swaps' = swaps + 1
    /\ rangeAcc' = rangeAcc \cup {j, j - 1}
    /\ UNCHANGED <<alg, ord, n, a0, aux, pc, first, last, i, h, lo, mid, hi, sz,
                   kres, ncmp, cmpLog, gaps, auxAcc, out, p, q>>

InitIns ==
    \E o \in Orders : \E r \in AllRanges(InsMaxLen, InsMaxKey) :
        Call("insertion", o, Size(r), r, << >>)

NextIns == InsEnter \/ InsScan \/ InsReturn \/ InsFront \/ InsBreak \/ InsSwap

SpecIns == InitIns /\ [][NextIns]_vars

(***************************************************************************)
(* knuth_seq(n): N k{1}; while (k < n/3) { k = 3*k + 1; } return k;        *)
(***************************************************************************)
RECURSIVE KnuthLoop(_, _)
KnuthLoop(k, nn) == IF k < nn \div 3 THEN KnuthLoop(3 * k + 1, nn) ELSE k

RECURSIVE KnuthLoopLe(_, _)
KnuthLoopLe(k, nn) == IF k <= nn \div 3 THEN KnuthLoopLe(3 * k + 1, nn) ELSE k

RECURSIVE KnuthLoopBelow(_, _)
KnuthLoopBelow(k, nn) ==
    IF 3 * (3 * k + 1) < nn THEN KnuthLoopBelow(3 * k + 1, nn) ELSE k

\* The loop with <= for <.
knuth_seq_le(nn) == KnuthLoopLe(1, nn)
\* The loop stopping at the last term below n/3.
knuth_seq_below(nn) == KnuthLoopBelow(1, nn)
knuth_seq(nn) == KnuthLoop(1, nn)

\* The call knuth_seq(n) and its return.
KnuthCall ==
    /\ pc = "knuth"
    /\ kres' = knuth_seq(n)
    /\ pc' = "done"
    /\ UNCHANGED <<alg, ord, n, a, a0, aux, first, last, i, j, h, lo, mid, hi,
                   sz, swaps, ncmp, cmpLog, gaps, rangeAcc, auxAcc, out, p, q>>

InitKnuth == \E nn \in 0..KnMaxN : Call("knuth", "lt", nn, << >>, << >>)

NextKnuth == KnuthCall

SpecKnuth == InitKnuth /\ [][NextKnuth]_vars

(***************************************************************************)
(* shell_sort(first, last, comp) and h_sort(first, last, h, comp)          *)
(***************************************************************************)
\* The loop test h > 0 and the step h /= 3 of shell_sort's for.
ShellContinuesAboveOne(g) == g > 1
ShellContinues(g) == g > 0

ShellNextGap(g) == g \div 3

\* auto h = knuth_seq(last - first)
ShellEnter ==
    /\ pc = "shell"
    /\ h' = knuth_seq(n)
    /\ pc' = "sh_loop"
    /\ UNCHANGED <<alg, ord, n, a, a0, aux, first, last, i, j, lo, mid, hi, sz,
                   kres, swaps, ncmp, cmpLog, gaps, rangeAcc, auxAcc, out, p, q>>

\* h > 0: h_sort(first, last, h, comp) is called; in it, i = first + h.
ShellPass ==
    /\ pc = "sh_loop"
    /\ ShellContinues(h)
    /\ gaps' = Append(gaps, h)
    /\ \E r \in Advance(h, n) : ~r.trap /\ i' = r.at
    /\ pc' = "h_i"
    /\ UNCHANGED <<alg, ord, n, a, a0, aux, first, last, j, h, lo, mid, hi, sz,
                   kres, swaps, ncmp, cmpLog, rangeAcc, auxAcc, out, p, q>>

\* h > 0: h_sort(first, last, h, comp) is called; its i = first + h lies
\* beyond last (an empty range, h = 1) and the program is aborted there.
HTrap ==
    /\ pc = "sh_loop"
    /\ ShellContinues(h)
    /\ gaps' = Append(gaps, h)
    /\ \E r \in Advance(h, n) : r.trap
    /\ pc' = "aborted"
    /\ UNCHANGED <<alg, ord, n, a, a0, aux, first, last, i, j, h, lo, mid, hi,
                   sz, kres, swaps, ncmp, cmpLog, rangeAcc, auxAcc, out, p, q>>

\* h > 0 fails: shell_sort returns.
ShellReturn ==
    /\ pc = "sh_loop"
    /\ ~ShellContinues(h)
    /\ pc' = "done"
    /\ UNCHANGED <<alg, ord, n, a, a0, aux, first, last, i, j, h, lo, mid, hi,
                   sz, kres, swaps, ncmp, cmpLog, gaps, rangeAcc, auxAcc, out, p, q>>

\* h_sort: i < last holds: j = i.
HScan ==
    /\ pc = "h_i"
    /\ i < n
    /\ j' = i
    /\ cmpLog' = << >>
    /\ pc' = "h_j"
    /\ UNCHANGED <<alg, ord, n, a, a0, aux, first, last, i, h, lo, mid, hi, sz,
                   kres, swaps, ncmp, gaps, rangeAcc, auxAcc, out, p, q>>

\* h_sort: i < last fails: h_sort returns, and shell_sort does h /= 3.
HReturn ==
    /\ pc = "h_i"
    /\ ~(i < n)
    /\ h' = ShellNextGap(h)
    /\ pc' = "sh_loop"
    /\ UNCHANGED <<alg, ord, n, a, a0, aux, first, last, i, j, lo, mid, hi, sz,
                   kres, swaps, ncmp, cmpLog, gaps, rangeAcc, auxAcc, out, p, q>>

\* h_sort: j - first >= h, k = j - h, comp(*j, *k): iter_swap(j, k); j -= h.
HSwap ==
    /\ pc = "h_j"
    /\ j >= h
    /\ comp(Rd(a, j), Rd(a, j - h))
    /\ a' = IterSwap(a, j, j - h)
    /\ j' = j - h
    /\ swaps' = swaps + 1
    /\ ncmp' = ncmp + 1
    /\ cmpLog' = Append(cmpLog, TRUE)
    /\ rangeAcc' = rangeAcc \cup {j, j - h}
    /\ UNCHANGED <<alg, ord, n, a0, aux, pc, first, last, i, h, lo, mid, hi, sz,
                   kres, gaps, auxAcc, out, p, q>>

\* h_sort: j - first >= h, k = j - h, !comp(*j, *k): no swap, and no break;
\* j -= h.
HKeep ==
    /\ pc = "h_j"
    /\ j >= h
    /\ ~comp(Rd(a, j), Rd(a, j - h))
    /\ j' = j - h
    /\ ncmp' = ncmp + 1
    /\ cmpLog' = Append(cmpLog, FALSE)
    /\ rangeAcc' = rangeAcc \cup {j, j - h}
    /\ UNCHANGED <<alg, ord, n, a, a0, aux, pc, first, last, i, h, lo, mid, hi,
                   sz, kres, swaps, gaps, auxAcc, out, p, q>>

\* h_sort: j - first >= h fails: the inner loop ends, ++i.
HFront ==
    /\ pc = "h_j"
    /\ j < h
    /\ i' = i + 1
    /\ pc' = "h_i"
    /\ UNCHANGED <<alg, ord, n, a, a0, aux, first, last, j, h, lo, mid, hi, sz,
                   kres, swaps, ncmp, cmpLog, gaps, rangeAcc, auxAcc, out, p, q>>

ShellRanges ==
    AllRanges(ShMaxLen, ShMaxKey)
        \cup {Descending(len) : len \in (ShMaxLen + 1)..ShMaxRev}

InitShell ==
    \E o \in Orders : \E r \in ShellRanges : Call("shell", o, Size(r), r, << >>)

NextShell ==
    ShellEnter \/ ShellPass \/ HTrap \/ ShellReturn \/ HScan \/ HReturn \/ HSwap
        \/ HKeep \/ HFront

SpecShell == InitShell /\ [][NextShell]_vars

(***************************************************************************)
(* merge_sort(first, last, aux, comp)                                      *)
(***************************************************************************)
\* std::copy(aux, aux + dim, first)
StdCopy(src, dim, dst) ==
    [x \in DOMAIN dst |-> IF x < dim THEN Rd(src, x) ELSE dst[x]]

\* if (last < hi) { hi = last; }
Clamp(r, e) ==
    IF r.trap THEN r ELSE [trap |-> FALSE, at |-> IF e < r.at THEN e ELSE r.at]

\* First loop: hi = lo + cutoff; if (last < hi) { hi = last; }
\* The outcomes: lo + cutoff is formed before it is clamped.
CutHi(l, e) == {Clamp(r, e) : r \in Advance(l + cutoff, e)}

\* Second loop: hi = lo + 2*sz; if (last < hi) { hi = last; }
\* The outcomes: lo + 2*sz is formed before it is clamped.
PairHiUnclamped(l, s, e) == Advance(l + 2 * s, e)
PairHi(l, s, e) == {Clamp(r, e) : r \in Advance(l + 2 * s, e)}

\* Second loop's test: lo < last - sz
PairContinues(l, s, e) == l < e - s

\* Entry: lo = first.
MergeEnter ==
    /\ pc = "merge"
    /\ lo' = 0
    /\ pc' = "cut"
    /\ UNCHANGED <<alg, ord, n, a, a0, aux, first, last, i, j, h, mid, hi, sz,
                   kres, swaps, ncmp, cmpLog, gaps, rangeAcc, auxAcc, out, p, q>>

\* lo < last, and hi = lo + cutoff lies beyond last: the program is aborted
\* there, before the clamp.
CutTrap ==
    /\ pc = "cut"
    /\ lo < n
    /\ \E r \in CutHi(lo, n) : r.trap
    /\ pc' = "aborted"
    /\ UNCHANGED <<alg, ord, n, a, a0, aux, first, last, i, j, h, lo, mid, hi,
                   sz, kres, swaps, ncmp, cmpLog, gaps, rangeAcc, auxAcc, out,
                   p, q>>

\* lo < last: hi is set and clamped, insertion_sort(lo, hi, comp) is called.
\* (The lo += cutoff that follows the call forms the same offset again.)
CutSegment ==
    /\ pc = "cut"
    /\ lo < n
    /\ \E r \in CutHi(lo, n) : ~r.trap /\ hi' = r.at
    /\ first' = lo
    /\ last' = hi'
    /\ pc' = "insertion"
    /\ UNCHANGED <<alg, ord, n, a, a0, aux, i, j, h, lo, mid, sz, kres, swaps,
                   ncmp, cmpLog, gaps, rangeAcc, auxAcc, out, p, q>>

\* lo < last fails: the second loop starts with sz = cutoff.
CutDone ==
    /\ pc = "cut"
    /\ ~(lo < n)
    /\ sz' = cutoff
    /\ pc' = "pass"
    /\ UNCHANGED <<alg, ord, n, a, a0, aux, first, last, i, j, h, lo, mid, hi,
                   kres, swaps, ncmp, cmpLog, gaps, rangeAcc, auxAcc, out, p, q>>

\* sz < dim: a pass starts with lo = first.
PassBegin ==
    /\ pc = "pass"
    /\ sz < n
    /\ lo' = 0
    /\ pc' = "pair"
    /\ UNCHANGED <<alg, ord, n, a, a0, aux, first, last, i, j, h, mid, hi, sz,
                   kres, swaps, ncmp, cmpLog, gaps, rangeAcc, auxAcc, out, p, q>>

\* sz < dim fails: merge_sort returns.
MergeReturn ==
    /\ pc = "pass"
    /\ ~(sz < n)
    /\ pc' = "done"
    /\ UNCHANGED <<alg, ord, n, a, a0, aux, first, last, i, j, h, lo, mid, hi,
                   sz, kres, swaps, ncmp, cmpLog, gaps, rangeAcc, auxAcc, out, p, q>>

\* lo < last - sz: mid and hi are set, hi clamped, and
\* std::merge(lo, mid, mid, hi, aux + (lo - first), comp) is called.
\* (The lo += 2*sz that follows the call forms the same offset as hi did.)
PairMerge ==
    /\ pc = "pair"
    /\ PairContinues(lo, sz, n)
    /\ mid' = lo + sz
    /\ \E r \in PairHi(lo, sz, n) : ~r.trap /\ hi' = r.at
    /\ p' = lo
    /\ q' = mid'
    /\ out' = lo
    /\ pc' = "mrg"
    /\ UNCHANGED <<alg, ord, n, a, a0, aux, first, last, i, j, h, lo, sz, kres,
                   swaps, ncmp, cmpLog, gaps, rangeAcc, auxAcc>>

\* lo < last - sz: mid is set, and hi = lo + 2*sz lies beyond last: the
\* program is aborted there, before the clamp.
PairTrap ==
    /\ pc = "pair"
    /\ PairContinues(lo, sz, n)
    /\ mid' = lo + sz
    /\ \E r \in PairHi(lo, sz, n) : r.trap
    /\ pc' = "aborted"
    /\ UNCHANGED <<alg, ord, n, a, a0, aux, first, last, i, j, h, lo, hi, sz,
                   kres, swaps, ncmp, cmpLog, gaps, rangeAcc, auxAcc, out, p, q>>

\* std::merge: the first run is not exhausted, and the second is, or its
\* element does not precede the first's: *d_first++ = *first1++.
MrgTakeFirst ==
    /\ pc = "mrg"
    /\ p # mid
    /\ q = hi \/ ~comp(Rd(a, q), Rd(a, p))
    /\ aux' = Wr(aux, out, Rd(a, p))
    /\ p' = p + 1
    /\ out' = out + 1
    /\ rangeAcc' = rangeAcc \cup (IF q = hi THEN {p} ELSE {p, q})
    /\ auxAcc' = auxAcc \cup {out}
    /\ UNCHANGED <<alg, ord, n, a, a0, pc, first, last, i, j, h, lo, mid, hi,
                   sz, kres, swaps, ncmp, cmpLog, gaps, q>>

\* std::merge: the second run is not exhausted, and the first is, or the
\* second's element precedes the first's: *d_first++ = *first2++.
MrgTakeSecond ==
    /\ pc = "mrg"
    /\ q # hi
    /\ p = mid \/ comp(Rd(a, q), Rd(a, p))
    /\ aux' = Wr(aux, out, Rd(a, q))
    /\ q' = q + 1
    /\ out' = out + 1
    /\ rangeAcc' = rangeAcc \cup (IF p = mid THEN {q} ELSE {p, q})
    /\ auxAcc' = auxAcc \cup {out}
    /\ UNCHANGED <<alg, ord, n, a, a0, pc, first, last, i, j, h, lo, mid, hi,
                   sz, kres, swaps, ncmp, cmpLog, gaps, p>>

\* std::merge: both runs are exhausted, it returns.
MrgReturn ==
    /\ pc = "mrg"
    /\ p = mid
    /\ q = hi
    /\ pc' = "pair_next"
    /\ UNCHANGED <<alg, ord, n, a, a0, aux, first, last, i, j, h, lo, mid, hi,
                   sz, kres, swaps, ncmp, cmpLog, gaps, rangeAcc, auxAcc, out,
                   p, q>>

\* lo += 2*sz
PairNext ==
    /\ pc = "pair_next"
    /\ lo' = lo + 2 * sz
    /\ pc' = "pair"
    /\ UNCHANGED <<alg, ord, n, a, a0, aux, first, last, i, j, h, mid, hi, sz,
                   kres, swaps, ncmp, cmpLog, gaps, rangeAcc, auxAcc, out, p, q>>

\* lo < last - sz fails: the pass's pairs are done.
PairDone ==
    /\ pc = "pair"
    /\ ~PairContinues(lo, sz, n)
    /\ pc' = "copy"
    /\ UNCHANGED <<alg, ord, n, a, a0, aux, first, last, i, j, h, lo, mid, hi,
                   sz, kres, swaps, ncmp, cmpLog, gaps, rangeAcc, auxAcc, out, p, q>>

\* std::copy(aux, aux + dim, first); sz *= 2
CopyBack ==
    /\ pc = "copy"
    /\ a' = StdCopy(aux, n, a)
    /\ sz' = sz * 2
    /\ rangeAcc' = rangeAcc \cup (0..(n - 1))
    /\ auxAcc' = auxAcc \cup (0..(n - 1))
    /\ pc' = "pass"
    /\ UNCHANGED <<alg, ord, n, a0, aux, first, last, i, j, h, lo, mid, hi,
                   kres, swaps, ncmp, cmpLog, gaps, out, p, q>>

\* The ranges merge_sort is run on: a length and a pattern of keys.
PatternKey(pat, len, x) ==
    CASE pat = 0 -> len - x
      [] pat = 1 -> x
      [] OTHER -> (x * (2 * pat + 3)) % (pat + 3)

MergeRange(len, pat) == [x \in 0..(len - 1) |-> Elem(PatternKey(pat, len, x), x)]

MergeLens ==
    {m \in 0..MrgMaxLen : m % cutoff \in {0, 1, cutoff \div 2}} \cup {MrgMaxLen}

\* What aux may hold at the call: anything.  Here, a copy of the range, or
\* cells of one key that are no elements of the range.
AuxContents(range) ==
    {range} \cup {[x \in DOMAIN range |-> Elem(g, -1 - x)] : g \in 0..MrgMaxJunk}

InitMerge ==
    \E o \in Orders : \E len \in MergeLens : \E pat \in 0..MrgMaxPat :
        \E b \in AuxContents(MergeRange(len, pat)) :
            Call("merge", o, len, MergeRange(len, pat), b)

NextMerge ==
    MergeEnter \/ CutSegment \/ CutTrap \/ CutDone \/ PassBegin
        \/ MergeReturn \/ PairMerge \/ PairTrap \/ MrgTakeFirst
        \/ MrgTakeSecond \/ MrgReturn \/ PairNext \/ PairDone \/ CopyBack
        \/ InsEnter \/ InsScan \/ InsReturn \/ InsFront \/ InsBreak \/ InsSwap

SpecMerge == InitMerge /\ [][NextMerge]_vars

(***************************************************************************)
(* The claims.                                                             *)
(***************************************************************************)

\* C1: when merge_sort returns, the range holds the stable sort of its
\* content at the call: sorted under comp, a rearrangement of the original
\* elements, equivalent elements in their original order.
C1_MergeSortIsStableSort ==
    (alg = "merge" /\ pc = "done") => IsStableSortOf(a, a0)

\* C2: when insertion_sort returns, the range holds the stable sort of its
\* content at the call.
C2_InsertionSortIsStableSort ==
    (alg = "insertion" /\ pc = "done") => IsStableSortOf(a, a0)

\* C2's case: a run that swapped, on a range with equivalent elements.
C2_Witness ==
    /\ alg = "insertion" /\ pc = "done" /\ swaps > 1
    /\ \E x, y \in DOMAIN a0 : x < y /\ Equiv(a0[x], a0[y])
    /\ a # a0

\* C3: when shell_sort returns, the range is sorted under comp and is a
\* rearrangement of its original elements; a range of length 0 or 1 is never
\* changed, whether the call returns or is aborted.
C3_ShellSortSorts ==
    alg = "shell" =>
        /\ pc = "done" => (IsSorted(a) /\ IsPermutation(a, a0))
        /\ n <= 1 => a = a0

\* C3's case: the range 9, 8, ..., 1 sorted with <.
C3_Witness ==
    /\ alg = "shell" /\ pc = "done" /\ ord = "lt"
    /\ a0 = Descending(9)
    /\ Len(gaps) = 2

\* C4: shell_sort is not stable: some call ends with two equivalent elements
\* in the opposite order (the witness).  More precisely, on every range of
\* length 6 whose elements 0 and 1 are equivalent, whose element 4 precedes
\* them and whose element 5 does not precede element 1, element 1 ends up
\* before element 0.
C4_ShellSortReordersEquivalents ==
    (/\ alg = "shell" /\ pc = "done" /\ n = 6
     /\ Equiv(a0[0], a0[1])
     /\ comp(a0[4], a0[0])
     /\ ~comp(a0[5], a0[1]))
        => \E x, y \in DOMAIN a : x < y /\ a[x] = a0[1] /\ a[y] = a0[0]

\* C4's case: a finished shell_sort whose result does not keep equivalent
\* elements in their original order.
C4_Witness ==
    /\ alg = "shell" /\ pc = "done"
    /\ IsSorted(a) /\ IsPermutation(a, a0)
    /\ ~KeepsOrder(a)

\* C5: the copy-back that ends a pass leaves a trailing run without partner
\* (the offsets from the lo at which the pass's loop stopped up to last) as
\* it was.
C5_TrailingRunCarried ==
    [][(pc = "copy" /\ pc' = "pass") =>
            \A x \in lo..(n - 1) : a'[x] = a[x]]_vars

\* C6: in merge_sort every segment handed to insertion_sort and every pair of
\* runs handed to std::merge lies in the range, first <= lo <= mid <= hi <=
\* last, std::merge writes aux exactly from lo - first up to hi - first, and
\* every offset of the range or of aux that is read or written lies in
\* 0 .. n-1.
C6_MergeSortStaysInBounds ==
    alg = "merge" =>
        /\ rangeAcc \subseteq 0..(n - 1)
        /\ auxAcc \subseteq 0..(n - 1)
        /\ pc \in {"insertion", "ins_i", "ins_j"} =>
              /\ 0 <= first /\ first <= last /\ last <= n
              /\ first = lo /\ last = hi
        /\ pc \in {"mrg", "pair_next"} =>
              /\ 0 <= lo /\ lo <= mid /\ mid <= hi /\ hi <= n
              /\ lo <= out /\ out <= hi
        /\ pc = "pair_next" => out = hi

\* C6's case: a pair of runs merged whose hi was clamped to last.
C6_Witness ==
    /\ alg = "merge" /\ pc = "pair_next"
    /\ lo + 2 * sz > n /\ hi = n
    /\ auxAcc # {}

\* C7: insertion_sort swaps as often as its input has inversions; on a sorted
\* range it does not swap and leaves the range as it was.
C7_SwapsAreInversions ==
    (alg = "insertion" /\ pc = "done") =>
        /\ swaps = Inversions(a0)
        /\ IsSorted(a0) => (swaps = 0 /\ a = a0)

\* C7's case: a finished run on an input with several inversions.
C7_Witness ==
    alg = "insertion" /\ pc = "done" /\ Inversions(a0) >= 3 /\ swaps >= 3

\* C8: for every n >= 0 the gaps shell_sort passes to h_sort start at
\* knuth_seq(n), are terms of 1, 4, 13, 40, ..., each 3 * the next + 1, and
\* end with one pass at gap 1, after which the loop terminates with no pass
\* at gap 0; for n <= 1 that pass is the only one and it neither compares
\* nor swaps.  The loop terminating: shell_sort has returned or can take a
\* step.
C8_GapsAreKnuthTermsDownToOne ==
    alg = "shell" =>
        /\ Len(gaps) > 0 => gaps[1] = knuth_seq(n)
        /\ \A x \in 1..Len(gaps) : IsKnuthTerm(gaps[x])
        /\ \A x \in 1..(Len(gaps) - 1) :
              gaps[x] = 3 * gaps[x + 1] + 1 /\ gaps[x] > gaps[x + 1]
        /\ pc = "done" => (Len(gaps) >= 1 /\ gaps[Len(gaps)] = 1)
        /\ n <= 1 => (ncmp = 0 /\ swaps = 0 /\ a = a0)
        /\ (pc = "done" /\ n <= 1) => gaps = <<1>>
        /\ pc = "done" \/ ENABLED NextShell

\* C9, as claimed: for n > 1, knuth_seq(n) is the largest term of 1, 4, 13,
\* 40, ... that is less than n/3.
C9_LargestTermBelowThird ==
    (alg = "knuth" /\ pc = "done" /\ n > 1) =>
        /\ IsKnuthTerm(kres)
        /\ 3 * kres < n
        /\ \A t \in 1..n : (IsKnuthTerm(t) /\ 3 * t < n) => t <= kres

\* C9, amended: for n > 1, knuth_seq(n) is the smallest term of 1, 4, 13, 40,
\* ... that is not less than n/3 in integer division, and it is less than n.
C9_SmallestTermReachingThird ==
    (alg = "knuth" /\ pc = "done" /\ n > 1) =>
        /\ IsKnuthTerm(kres)
        /\ kres >= n \div 3
        /\ \A t \in 1..n : (IsKnuthTerm(t) /\ t >= n \div 3) => kres <= t
        /\ kres < n

\* C9's case: a call whose loop ran more than once.
C9_Witness ==
    alg = "knuth" /\ pc = "done" /\ n > 1 /\ kres >= 13

\* C10: at a scan position i of h_sort the walk back stops at the first j
\* at which comp(*j, *(j - h)) is false: no comparison follows a false one.
C10_WalkStopsAtFirstFalse ==
    alg = "shell" => \A x \in 1..(Len(cmpLog) - 1) : cmpLog[x] = TRUE

====
